---- MODULE Spec2Model ----
(***************************************************************************)
(* Model of two primitives of stronghold.rs:                               *)
(*   - stm/src/rlu/stm/version.rs: VersionLock, a word-sized bounded spin  *)
(*     lock whose most significant bit is the lock flag and whose other    *)
(*     bits are a version counter, and VersionClock, a shared counter;     *)
(*   - engine/runtime/src/memories/noncontiguous_memory.rs: the two-shard  *)
(*     NonContiguousMemory guard.                                          *)
(* Every atomic instruction of version.rs is one step of a thread.         *)
(***************************************************************************)
EXTENDS Integers, Naturals, Sequences, FiniteSets, TLC

\* ------------------------------------------------------------- bounds
\* usize is scaled down from 64 bits to WordBits bits.
WordBits == 4
\* i32, the type of `bound` and `n` in try_lock, is scaled down from 32 bits
\* to I32Bits bits; the shift `1 << 31` is the shift onto its sign bit.
I32Bits == 4
\* Number of threads sharing one VersionLock.
NumThreads == 2
\* Rounds (K) each worker thread performs.
Rounds == 2
\* A buffer of NC_DATA_SIZE bytes is scaled down from 256 bits to DataBits bits.
DataBits == 2
\* Successive refresh calls on one guard.
MaxRefresh == 2
\* Explicit zeroize calls on one guard value.
MaxZeroize == 2

Threads == 1..NumThreads

\* ------------------------------------------------------------- words
RECURSIVE Pow2(_)
Pow2(k) == IF k = 0 THEN 1 ELSE 2 * Pow2(k - 1)

RECURSIVE BitAndN(_, _, _)
BitAndN(a, b, k) ==
    IF k = 0 THEN 0
    ELSE (IF a % 2 = 1 /\ b % 2 = 1 THEN 1 ELSE 0)
         + 2 * BitAndN(a \div 2, b \div 2, k - 1)

RECURSIVE BitOrN(_, _, _)
BitOrN(a, b, k) ==
    IF k = 0 THEN 0
    ELSE (IF a % 2 = 1 \/ b % 2 = 1 THEN 1 ELSE 0)
         + 2 * BitOrN(a \div 2, b \div 2, k - 1)

\* std::mem::size_of::<usize>() * 8
word_size_bits == WordBits
\* usize::MAX + 1
WordMod == Pow2(word_size_bits)
Word == 0..(WordMod - 1)

BitAnd(a, b) == BitAndN(a, b, word_size_bits)
BitOr(a, b) == BitOrN(a, b, word_size_bits)
BitNot(a) == (WordMod - 1) - a

shift_by == word_size_bits - 1
\* !(1 << shift_by()): every bit but the most significant one
mask == BitNot(Pow2(shift_by))

\* the lock bit of a word, as a boolean
LockBitSet(w) == BitAnd(w, BitNot(mask)) # 0

\* a result of i32 arithmetic: two's complement, wrapped to the width of i32
WrapI32(x) ==
    LET m == x % Pow2(I32Bits)
    IN IF m >= Pow2(I32Bits - 1) THEN m - Pow2(I32Bits) ELSE m

\* mutant: the shift as it would be in a type wider than i32
bound_wide == Pow2(I32Bits - 1)

\* try_lock: let bound = 1 << 31, an i32 for want of any other constraint on
\* its type: the shift sets the sign bit
bound == WrapI32(Pow2(I32Bits - 1))

\* mutant: the increment is lost
fetch_add_lost(w, v) == w

\* AtomicUsize::fetch_add(v): wrapping addition
fetch_add(w, v) == (w + v) % WordMod

\* ------------------------------------------------------------- state
VARIABLES
    word,      \* VersionLock.atomic
    pc,        \* per thread: position inside the call in progress
    op,        \* per thread: the VersionLock method in progress
    tl_n,      \* per thread: loop index `n` of try_lock
    il_n,      \* per thread: local `n` of is_locked (the loaded word)
    old,       \* per thread: word returned by the fetch_and of unlock
    ret,       \* per thread: method and value of the last call that returned
    entry,     \* the word when the sequential caller's last call began
    rs_value,  \* the `value` of the release_set call that stored last
    job,       \* per worker: position inside the closure given to the pool
    left,      \* per worker: closures it has still to run
    counter,   \* the counter the lock protects
    tmp,       \* per worker: the counter value it read
    completed  \* critical sections completed so far

lockVars == <<word, pc, op, tl_n, il_n, old, ret, entry, rs_value>>
workerVars == <<job, left, counter, tmp, completed>>


VARIABLES
    guard,     \* the NonContiguousMemory value the caller holds
    gstate,    \* "none" before alloc, "live" with a guard, "panicked"
    payload,   \* the payload the caller gave last, to alloc or to update
    hash1,     \* Blake2b256 of the content of guard.shard1
    nrefresh,  \* refresh calls the caller has adopted the result of
    result,    \* the last call on the guard and what it returned
    acall,     \* the call of alloc made in the last step, if any: its
               \* arguments, the value it drew and the shards it allocated
    origin,    \* the call the caller's guard came from
    zruns,     \* how often zeroize has run on the caller's guard value
    dropped,   \* the guard value discarded in the last step, if any: the
               \* zeroize runs it has had
    wire       \* the bytes the last serialize emitted

guardVars == <<guard, gstate, payload, hash1, nrefresh, result, acall,
               origin, zruns, dropped, wire>>

VARIABLES
    clock,     \* VersionClock.atomic
    prev_inc,  \* the value the latest increment returned, if any
    prev_ver   \* the value the latest VersionClock::version returned, if any

clockVars == <<clock, prev_inc, prev_ver>>

vars == <<lockVars, workerVars, guardVars, clockVars>>

Ops == {"try_lock", "unlock", "release", "release_set", "is_locked", "version"}

\* the first instruction of method o; try_lock begins with the first probe of
\* its loop `for n in 0..bound`, or with fetch_or when the range is empty
FirstPc(o) ==
    CASE o = "try_lock" -> IF 0 < bound THEN "il_load" ELSE "tl_set"
      [] o = "is_locked" -> "il_load"
      [] o = "unlock" -> "unlock"
      [] o = "release" -> "rel_unlock"
      [] o = "release_set" -> "rs_unlock"
      [] o = "version" -> "ver_load"

NoRet == [op |-> "none", val |-> "none"]

\* ------------------------------------------------- NonContiguousMemory
\* pub const NC_DATA_SIZE: usize = 32
NC_DATA_SIZE == 32

\* the contents a buffer of NC_DATA_SIZE bytes can have
Data == 0..(Pow2(DataBits) - 1)

RECURSIVE BitXorN(_, _, _)
BitXorN(a, b, k) ==
    IF k = 0 THEN 0
    ELSE (IF a % 2 # b % 2 THEN 1 ELSE 0)
         + 2 * BitXorN(a \div 2, b \div 2, k - 1)

\* utils::xor(a, b, NC_DATA_SIZE): the byte-wise exclusive or of two buffers
xor(a, b) == BitXorN(a, b, DataBits)

NCConfig == {"FullFile", "FullRam", "RamAndFile"}

\* RamMemory::alloc / FileMemory::alloc: a shard holding the data
ShardAlloc(kind, data) == [kind |-> kind, data |-> data, live |-> TRUE]

\* RamMemory::unlock / FileMemory::unlock: the data, or an error once the
\* shard has been zeroized
ShardUnlock(sh) ==
    IF sh.live THEN [tag |-> "Ok", val |-> sh.data]
    ELSE [tag |-> "Err", val |-> 0]

\* zeroize of a shard: the buffer is wiped and can no longer be unlocked
ShardZeroize(sh) == [kind |-> sh.kind, data |-> 0, live |-> FALSE]

NoShard == [kind |-> "RamShard", data |-> 0, live |-> FALSE]
NoGuard == [shard1 |-> NoShard, shard2 |-> NoShard, config |-> "FullRam"]
NoResult == [op |-> "none", tag |-> "none", val |-> 0, err |-> "none"]

NoCall == [size |-> 0, config |-> "FullRam", random |-> 0, shards |-> 0]

\* no guard value has been discarded yet
NoDrop == [what |-> "none", explicit |-> 0, runs |-> 0, wiped |-> FALSE]
\* nothing has been serialized yet: the bytes, their number, and the config
\* of the guard they came from
NoWire == [len |-> 0, data |-> 0, config |-> "FullRam"]

Ok(o, v) == [op |-> o, tag |-> "Ok", val |-> v, err |-> "none"]
Err(o, e) == [op |-> o, tag |-> "Err", val |-> 0, err |-> e]
Panic(o, e) == [op |-> o, tag |-> "Panic", val |-> 0, err |-> e]

\* the guard's part of the state before any guard is allocated
InitMemory ==
    /\ guard = NoGuard
    /\ gstate = "none"
    /\ payload = 0
    /\ hash1 = 0
    /\ nrefresh = 0
    /\ result = NoResult
    /\ acall = NoCall
    /\ origin = "none"
    /\ zruns = 0
    /\ dropped = NoDrop
    /\ wire = NoWire

\* mutant: the payload is stored without the digest mask
alloc_shard2_data_unmasked(digest, pl) == pl

\* alloc: let digest = xor(&digest, payload, NC_DATA_SIZE), the shard2 content
alloc_shard2_data(digest, pl) == xor(digest, pl)

\* mutant: the payload itself is put into shard1
alloc_shard1_data_payload(random, pl) == pl

\* alloc: let ram1 = RamMemory::alloc(&random, NC_DATA_SIZE), the shard1
\* content
alloc_shard1_data(random, pl) == random

\* alloc: the kind of shard2 the config selects
alloc_shard2_kind(config) ==
    IF config = "RamAndFile" THEN "FileShard" ELSE "RamShard"

\* mutant: every size is let through
alloc_size_allowed_any(size) == TRUE

\* alloc: if size != NC_DATA_SIZE { return Err(NCSizeNotAllowed) }
alloc_size_allowed(size) == size = NC_DATA_SIZE

\* mutant: the catch-all arm builds a shard like the arm of FullRam
alloc_config_supported_all(config) == TRUE

\* alloc: the arms of `match config` that build shard2; the arm `_` returns
\* Err(LockNotAvailable)
alloc_config_supported(config) == config \in {"RamAndFile", "FullRam"}

\* NonContiguousMemory::alloc(payload, size, config), with `random` the value
\* random_vec draws and `digest` its Blake2b256 digest: the value returned,
\* the digest of the content of shard1 and the number of shards allocated on
\* the way (ram1 is allocated before `match config`)
alloc(pl, size, config, random, digest) ==
    IF ~alloc_size_allowed(size)
    THEN [tag |-> "Err", err |-> "NCSizeNotAllowed", guard |-> NoGuard,
          hash1 |-> 0, shards |-> 0]
    ELSE IF ~alloc_config_supported(config)
    THEN [tag |-> "Err", err |-> "LockNotAvailable", guard |-> NoGuard,
          hash1 |-> 0, shards |-> 1]
    ELSE [tag |-> "Ok", err |-> "none",
          guard |-> [shard1 |-> ShardAlloc("RamShard",
                                           alloc_shard1_data(random, pl)),
                     shard2 |-> ShardAlloc(alloc_shard2_kind(config),
                                           alloc_shard2_data(digest, pl)),
                     config |-> config],
          hash1 |-> digest, shards |-> 2]

\* get_buffer_from_shard1: the content of shard1; `expect` panics when the Ram
\* shard cannot be unlocked, `unreachable!` when shard1 is no Ram shard
get_buffer_from_shard1(g) ==
    IF g.shard1.kind = "RamShard" /\ ShardUnlock(g.shard1).tag = "Ok"
    THEN [tag |-> "Ok", val |-> g.shard1.data]
    ELSE [tag |-> "Panic", val |-> 0]

\* refresh: new_data1 = xor(data_of_old_shard1, &random, NC_DATA_SIZE)
refresh_shard1_data(data_of_old_shard1, random) ==
    xor(data_of_old_shard1, random)

\* mutant: the old digest is not taken out of shard2
refresh_shard2_data_new_only(buf, hash_of_old_shard1, hash_of_new_shard1) ==
    xor(buf, hash_of_new_shard1)

\* refresh: new_data2 = xor(xor(buf, hash_of_old_shard1), hash_of_new_shard1)
refresh_shard2_data(buf, hash_of_old_shard1, hash_of_new_shard1) ==
    xor(xor(buf, hash_of_old_shard1), hash_of_new_shard1)

\* the digests Blake2b256 can give for new_data1 when its digest for the old
\* shard1 content is h: a function gives equal digests for equal inputs
NewDigests(data_of_old_shard1, h, new_data1) ==
    IF new_data1 = data_of_old_shard1 THEN {h} ELSE Data

\* NonContiguousMemory::refresh(&self) on guard g, whose shard1 content has
\* the digest h, with `random` drawn and d the digest of the new shard1
\* content: the value returned, and the digest of the new guard's shard1
refresh(g, h, random, d) ==
    LET buf1 == get_buffer_from_shard1(g)
        new_data1 == refresh_shard1_data(buf1.val, random)
        buf2 == ShardUnlock(g.shard2)
    IN IF buf1.tag = "Panic"
       THEN [tag |-> "Panic", guard |-> NoGuard, hash1 |-> 0]
       ELSE IF buf2.tag = "Err"
       THEN [tag |-> "Err", guard |-> NoGuard, hash1 |-> 0]
       ELSE [tag |-> "Ok",
             guard |-> [shard1 |-> ShardAlloc("RamShard", new_data1),
                        shard2 |-> ShardAlloc(g.shard2.kind,
                                      refresh_shard2_data(buf2.val, h, d)),
                        config |-> g.config],
             hash1 |-> d]

\* unlock: x = xor(&data1, &buf.borrow(), NC_DATA_SIZE), with data1 the digest
\* of the content of shard1
unlock_data(data1, buf) == xor(data1, buf)

\* LockedMemory::unlock(&self) on guard g: self.refresh()? whose value is
\* dropped, then the digest of self.shard1 combined with self.shard2
unlock(g, h, random, d) ==
    LET r == refresh(g, h, random, d)
        buf1 == get_buffer_from_shard1(g)
        buf2 == ShardUnlock(g.shard2)
    IN IF r.tag = "Panic" \/ buf1.tag = "Panic"
       THEN Panic("unlock", "expect")
       ELSE IF r.tag = "Err" \/ buf2.tag = "Err"
       THEN Err("unlock", "shard")
       ELSE Ok("unlock", unlock_data(h, buf2.val))

\* mutant: shard2 is left as it is
zeroize_shard1_only(g) ==
    [shard1 |-> ShardZeroize(g.shard1), shard2 |-> g.shard2, config |-> "FullRam"]

\* Zeroize for NonContiguousMemory
zeroize(g) ==
    [shard1 |-> ShardZeroize(g.shard1),
     shard2 |-> ShardZeroize(g.shard2),
     config |-> "FullRam"]

\* mutant: the destructor does not zeroize
drop_forgets(g, runs) == [guard |-> g, runs |-> runs]

\* Drop for NonContiguousMemory: self.zeroize(), on a guard value zeroize has
\* run `runs` times on: the memory it leaves and the runs of zeroize then
drop(g, runs) == [guard |-> zeroize(g), runs |-> runs + 1]

\* both shard buffers of g are wiped
Wiped(g) ==
    /\ ~g.shard1.live /\ g.shard1.data = 0
    /\ ~g.shard2.live /\ g.shard2.data = 0

\* the guard value g, on which zeroize has run `runs` times, is discarded on
\* the occasion `what`: its destructor runs
Discard(what, g, runs) ==
    LET d == drop(g, runs)
    IN [what |-> what, explicit |-> runs, runs |-> d.runs,
        wiped |-> Wiped(d.guard)]

\* the caller allocates its guard: NonContiguousMemory::alloc(pl, size, config)
Alloc(pl, size, config, random, digest) ==
    /\ gstate = "none"
    /\ result.op = "none"
    /\ payload' = pl
    /\ nrefresh' = 0
    /\ LET a == alloc(pl, size, config, random, digest)
       IN /\ acall' = [size |-> size, config |-> config, random |-> random,
                       shards |-> a.shards]
          /\ IF a.tag = "Ok"
             THEN /\ guard' = a.guard
                  /\ hash1' = a.hash1
                  /\ gstate' = "live"
                  /\ origin' = "alloc"
                  /\ result' = Ok("alloc", 0)
             ELSE /\ result' = Err("alloc", a.err)
                  /\ UNCHANGED <<guard, gstate, hash1, origin>>
    /\ UNCHANGED <<zruns, dropped, wire>>
    /\ UNCHANGED <<lockVars, workerVars, clockVars>>

\* the caller rotates its guard: let ncm = ncm.refresh().unwrap(); the guard
\* it held before is discarded
Refresh(random, d) ==
    /\ gstate = "live"
    /\ nrefresh < MaxRefresh
    /\ d \in NewDigests(guard.shard1.data, hash1,
                        refresh_shard1_data(guard.shard1.data, random))
    /\ LET r == refresh(guard, hash1, random, d)
       IN IF r.tag = "Ok"
          THEN /\ guard' = r.guard
               /\ hash1' = r.hash1
               /\ nrefresh' = nrefresh + 1
               /\ result' = Ok("refresh", 0)
               /\ dropped' = Discard("refresh", guard, zruns)
               /\ zruns' = 0
               /\ UNCHANGED gstate
          ELSE /\ gstate' = IF r.tag = "Panic" THEN "panicked" ELSE gstate
               /\ result' = IF r.tag = "Panic"
                            THEN Panic("refresh", "expect")
                            ELSE Err("refresh", "shard")
               /\ dropped' = NoDrop
               /\ UNCHANGED <<guard, hash1, nrefresh, zruns>>
    /\ acall' = NoCall
    /\ UNCHANGED <<payload, origin, wire>>
    /\ UNCHANGED <<lockVars, workerVars, clockVars>>

\* the caller reads the secret: ncm.unlock(); the guard self.refresh()
\* returned is a temporary, discarded at once
Unlock(random, d) ==
    /\ gstate = "live"
    /\ d \in NewDigests(guard.shard1.data, hash1,
                        refresh_shard1_data(guard.shard1.data, random))
    /\ result' = unlock(guard, hash1, random, d)
    /\ gstate' = IF result'.tag = "Panic" THEN "panicked" ELSE gstate
    /\ LET r == refresh(guard, hash1, random, d)
       IN IF r.tag = "Ok"
          THEN dropped' = Discard("rotation", r.guard, 0)
          ELSE dropped' = NoDrop
    /\ acall' = NoCall
    /\ UNCHANGED <<guard, payload, hash1, nrefresh, origin, zruns, wire>>
    /\ UNCHANGED <<lockVars, workerVars, clockVars>>

\* the caller wipes its guard: ncm.zeroize()
Zeroize ==
    /\ gstate = "live"
    /\ zruns < MaxZeroize
    /\ guard' = zeroize(guard)
    /\ zruns' = zruns + 1
    /\ result' = Ok("zeroize", 0)
    /\ acall' = NoCall
    /\ dropped' = NoDrop
    /\ UNCHANGED <<gstate, payload, hash1, nrefresh, origin, wire>>
    /\ UNCHANGED <<lockVars, workerVars, clockVars>>

\* the caller's guard falls out of scope, or is dropped by the unwinding of a
\* panic: Drop::drop
Drop ==
    /\ gstate \in {"live", "panicked"}
    /\ guard' = drop(guard, zruns).guard
    /\ dropped' = Discard(IF gstate = "live" THEN "scope" ELSE "unwind",
                          guard, zruns)
    /\ zruns' = drop(guard, zruns).runs
    /\ gstate' = "dropped"
    /\ result' = Ok("drop", 0)
    /\ acall' = NoCall
    /\ UNCHANGED <<payload, hash1, nrefresh, origin, wire>>
    /\ UNCHANGED <<lockVars, workerVars, clockVars>>

\* the caller replaces the secret: ncm.update(payload, size), which is
\* NonContiguousMemory::alloc(&payload, size, self.config.clone()); self is
\* consumed and discarded when update returns
Update(pl, size, random, digest) ==
    /\ gstate = "live"
    /\ origin = "alloc"
    /\ LET a == alloc(pl, size, guard.config, random, digest)
       IN /\ acall' = [size |-> size, config |-> guard.config,
                       random |-> random, shards |-> a.shards]
          /\ dropped' = Discard("update", guard, zruns)
          /\ IF a.tag = "Ok"
             THEN /\ guard' = a.guard
                  /\ hash1' = a.hash1
                  /\ zruns' = 0
                  /\ result' = Ok("update", 0)
                  /\ UNCHANGED gstate
             ELSE /\ guard' = drop(guard, zruns).guard
                  /\ zruns' = drop(guard, zruns).runs
                  /\ gstate' = "dropped"
                  /\ result' = Err("update", a.err)
                  /\ UNCHANGED hash1
    /\ payload' = pl
    /\ nrefresh' = 0
    /\ origin' = "update"
    /\ UNCHANGED wire
    /\ UNCHANGED <<lockVars, workerVars, clockVars>>

\* Serialize for NonContiguousMemory: self.unlock().expect(..) and then
\* buf.serialize(serializer), which emits the bytes of the buffer in order
Serialize(random, d) ==
    /\ gstate = "live"
    /\ d \in NewDigests(guard.shard1.data, hash1,
                        refresh_shard1_data(guard.shard1.data, random))
    /\ LET buf == unlock(guard, hash1, random, d)
           r == refresh(guard, hash1, random, d)
       IN /\ IF buf.tag = "Ok"
             THEN /\ result' = Ok("serialize", buf.val)
                  /\ wire' = [len |-> NC_DATA_SIZE, data |-> buf.val,
                              config |-> guard.config]
                  /\ UNCHANGED gstate
             ELSE /\ result' = Panic("serialize", "expect")
                  /\ gstate' = "panicked"
                  /\ UNCHANGED wire
          /\ IF r.tag = "Ok"
             THEN dropped' = Discard("rotation", r.guard, 0)
             ELSE dropped' = NoDrop
    /\ acall' = NoCall
    /\ UNCHANGED <<guard, payload, hash1, nrefresh, origin, zruns>>
    /\ UNCHANGED <<lockVars, workerVars, clockVars>>

\* mutant: the capacity hint of the sequence is taken for its length
visit_seq_size_hint(len) == 0

\* visit_seq: seq.len(), the number of elements read from the sequence
visit_seq_size(len) == len

\* Deserialize for NonContiguousMemory, visit_seq on the bytes serialize
\* emitted: NonContiguousMemory::alloc(seq, seq.len(), FullRam).expect(..);
\* the guard the caller held is discarded for the new one
Deserialize(random, digest) ==
    /\ gstate \in {"live", "dropped"}
    /\ origin # "deserialize"
    /\ wire # NoWire
    /\ LET size == visit_seq_size(wire.len)
           a == alloc(wire.data, size, "FullRam", random, digest)
       IN /\ acall' = [size |-> size, config |-> "FullRam",
                       random |-> random, shards |-> a.shards]
          /\ IF a.tag = "Ok"
             THEN /\ guard' = a.guard
                  /\ hash1' = a.hash1
                  /\ gstate' = "live"
                  /\ origin' = "deserialize"
                  /\ nrefresh' = 0
                  /\ zruns' = 0
                  /\ result' = Ok("deserialize", 0)
                  /\ dropped' = IF gstate = "live"
                                THEN Discard("replaced", guard, zruns)
                                ELSE NoDrop
             ELSE /\ result' = Panic("deserialize", "expect")
                  /\ gstate' = "panicked"
                  /\ dropped' = NoDrop
                  /\ UNCHANGED <<guard, hash1, origin, nrefresh, zruns>>
    /\ UNCHANGED <<payload, wire>>
    /\ UNCHANGED <<lockVars, workerVars, clockVars>>

\* the sizes a caller may declare
Sizes == {NC_DATA_SIZE - 1, NC_DATA_SIZE, NC_DATA_SIZE + 1}

NextMemory ==
    \/ \E pl \in Data, random \in Data, digest \in Data :
         \E size \in Sizes, config \in NCConfig :
             Alloc(pl, size, config, random, digest)
    \/ \E random \in Data, d \in Data : Refresh(random, d)
    \/ \E random \in Data, d \in Data : Unlock(random, d)
    \/ Zeroize

\* a caller that allocates a guard, reads, wipes and replaces it, and lets go
\* of it
NextLifecycle ==
    \/ \E pl \in Data, random \in Data, digest \in Data :
         \E size \in Sizes, config \in NCConfig :
             Alloc(pl, size, config, random, digest)
    \/ \E random \in Data, d \in Data : Unlock(random, d)
    \/ Zeroize
    \/ Drop
    \/ \E pl \in Data, random \in Data, digest \in Data :
         \E size \in Sizes : Update(pl, size, random, digest)

\* a caller that allocates a guard, rotates it, serializes it, deserializes
\* the bytes and reads the guard it has
NextSerde ==
    \/ \E pl \in Data, random \in Data, digest \in Data :
         \E size \in Sizes, config \in NCConfig :
             Alloc(pl, size, config, random, digest)
    \/ \E random \in Data, d \in Data : Refresh(random, d)
    \/ \E random \in Data, d \in Data : Unlock(random, d)
    \/ \E random \in Data, d \in Data : Serialize(random, d)
    \/ \E random \in Data, digest \in Data : Deserialize(random, digest)

\* the threads' part of the state after construction
InitThreads ==
    /\ pc = [t \in Threads |-> "idle"]
    /\ op = [t \in Threads |-> "none"]
    /\ tl_n = [t \in Threads |-> 0]
    /\ il_n = [t \in Threads |-> 0]
    /\ old = [t \in Threads |-> 0]
    /\ ret = [t \in Threads |-> NoRet]
    /\ entry = 0
    /\ rs_value = 0
    /\ job = [t \in Threads |-> "start"]
    /\ left = [t \in Threads |-> Rounds]
    /\ counter = 0
    /\ tmp = [t \in Threads |-> 0]
    /\ completed = 0

\* VersionClock::default(): AtomicUsize::default() is 0; no call made yet
InitClock ==
    /\ clock = 0
    /\ prev_inc = {}
    /\ prev_ver = {}

\* after construction: VersionLock::default() (AtomicUsize::default() is 0),
\* and no guard allocated yet
Init ==
    /\ word = 0
    /\ InitThreads
    /\ InitMemory
    /\ InitClock

\* thread t enters method o
Begin(t, o) ==
    /\ pc[t] = "idle"
    /\ pc' = [pc EXCEPT ![t] = FirstPc(o)]
    /\ op' = [op EXCEPT ![t] = o]
    /\ ret' = [ret EXCEPT ![t] = NoRet]
    /\ UNCHANGED <<word, tl_n, il_n, old>>

\* thread t returns value r from the method in progress; its locals die
Return(t, r) ==
    /\ pc' = [pc EXCEPT ![t] = "idle"]
    /\ op' = [op EXCEPT ![t] = "none"]
    /\ ret' = [ret EXCEPT ![t] = [op |-> op[t], val |-> r]]
    /\ tl_n' = [tl_n EXCEPT ![t] = 0]
    /\ il_n' = [il_n EXCEPT ![t] = 0]
    /\ old' = [old EXCEPT ![t] = 0]

\* is_locked: let n = self.atomic.load(SeqCst)
IsLockedLoad(t) ==
    /\ pc[t] = "il_load"
    /\ il_n' = [il_n EXCEPT ![t] = word]
    /\ pc' = [pc EXCEPT ![t] = "il_cas"]
    /\ UNCHANGED <<word, op, tl_n, old, ret, entry, rs_value>>
    /\ UNCHANGED <<workerVars, guardVars, clockVars>>

\* compare_exchange(mask & n, n): succeeds when the word equals mask & n
CasSucceeds(w, n) == w = BitAnd(mask, n)

\* is_locked: the compare_exchange and the result; inside try_lock the rest of
\* the loop body follows in the same step (it touches only locals).
IsLockedCas(t) ==
    /\ pc[t] = "il_cas"
    /\ LET ok == CasSucceeds(word, il_n[t])
           locked == ~ok
       IN /\ word' = IF ok THEN il_n[t] ELSE word
          /\ IF op[t] = "is_locked"
             THEN Return(t, locked)
             ELSE IF (~locked) /\ tl_n[t] = WrapI32(bound - 1)
                  THEN Return(t, "Err")
                  ELSE /\ tl_n' = [tl_n EXCEPT ![t] = tl_n[t] + 1]
                       /\ il_n' = [il_n EXCEPT ![t] = 0]
                       /\ pc' = [pc EXCEPT ![t] =
                                   IF tl_n[t] + 1 < bound
                                   THEN "il_load" ELSE "tl_set"]
                       /\ UNCHANGED <<op, old, ret>>
    /\ UNCHANGED <<entry, rs_value>>
    /\ UNCHANGED <<workerVars, guardVars, clockVars>>

\* try_lock after the loop: self.atomic.fetch_or(!mask); Ok(())
TryLockSet(t) ==
    /\ pc[t] = "tl_set"
    /\ word' = BitOr(word, BitNot(mask))
    /\ Return(t, "Ok")
    /\ UNCHANGED <<entry, rs_value>>
    /\ UNCHANGED <<workerVars, guardVars, clockVars>>

\* unlock: self.atomic.fetch_and(mask); in release and release_set the
\* second instruction follows
UnlockStep(t) ==
    /\ pc[t] \in {"unlock", "rel_unlock", "rs_unlock"}
    /\ word' = BitAnd(word, mask)
    /\ IF pc[t] = "unlock"
       THEN Return(t, "Ok")
       ELSE /\ pc' = [pc EXCEPT ![t] =
                        IF pc[t] = "rel_unlock" THEN "rel_add" ELSE "rs_store"]
            /\ old' = [old EXCEPT ![t] = word]
            /\ UNCHANGED <<op, tl_n, il_n, ret>>
    /\ UNCHANGED <<entry, rs_value>>
    /\ UNCHANGED <<workerVars, guardVars, clockVars>>

\* release: self.atomic.fetch_add(1); Ok(())
ReleaseAdd(t) ==
    /\ pc[t] = "rel_add"
    /\ word' = fetch_add(word, 1)
    /\ Return(t, "Ok")
    /\ UNCHANGED <<entry, rs_value>>
    /\ UNCHANGED <<workerVars, guardVars, clockVars>>

\* release_set: self.atomic.store(value); Ok(()), for the caller's value
ReleaseSetStore(t) ==
    /\ pc[t] = "rs_store"
    /\ \E value \in Word : word' = value /\ rs_value' = value
    /\ Return(t, "Ok")
    /\ UNCHANGED entry
    /\ UNCHANGED <<workerVars, guardVars, clockVars>>

\* version: self.atomic.load() & mask
VersionLoad(t) ==
    /\ pc[t] = "ver_load"
    /\ Return(t, BitAnd(word, mask))
    /\ UNCHANGED <<word, entry, rs_value>>
    /\ UNCHANGED <<workerVars, guardVars, clockVars>>

\* one atomic instruction of the call thread t is in
LockStep(t) ==
    \/ IsLockedLoad(t)
    \/ IsLockedCas(t)
    \/ TryLockSet(t)
    \/ UnlockStep(t)
    \/ ReleaseAdd(t)
    \/ ReleaseSetStore(t)
    \/ VersionLoad(t)

\* a caller invoking any method of the public interface
ApiCall(t) ==
    /\ \E o \in Ops : Begin(t, o)
    /\ UNCHANGED <<entry, rs_value, workerVars, guardVars, clockVars>>

\* any number of threads calling the methods in any order
NextLock == \E t \in Threads : ApiCall(t) \/ LockStep(t)

SpecLock == Init /\ [][NextLock]_vars

\* the sequential caller invoking any method; the word it found is recorded
SeqCall ==
    /\ \E o \in Ops : Begin(1, o)
    /\ entry' = word
    /\ UNCHANGED <<rs_value, workerVars, guardVars, clockVars>>

\* one thread calling the methods in any order: no concurrent operation
NextSeq == SeqCall \/ LockStep(1)

SpecSeq == Init /\ [][NextSeq]_vars

\* a caller that allocates a guard and then rotates, reads and wipes it
SpecMemory == Init /\ [][NextMemory]_vars

SpecLifecycle == Init /\ [][NextLifecycle]_vars

SpecSerde == Init /\ [][NextSerde]_vars

\* ------------------------------------------------------- VersionClock
\* VersionClock::new(version): the clock the threads share is created with
\* the caller's version, before any call on it
ClockNew(version) ==
    /\ prev_inc = {}
    /\ prev_ver = {}
    /\ clock' = version
    /\ UNCHANGED <<prev_inc, prev_ver>>
    /\ UNCHANGED <<lockVars, workerVars, guardVars>>

\* VersionClock::increment by thread t: Ok(self.atomic.fetch_add(1)), one
\* atomic instruction whose value is the word before the addition
ClockIncrement(t) ==
    /\ clock' = fetch_add(clock, 1)
    /\ prev_inc' = {clock}
    /\ UNCHANGED prev_ver
    /\ UNCHANGED <<lockVars, workerVars, guardVars>>

\* VersionClock::version by thread t: self.atomic.load()
ClockVersion(t) ==
    /\ prev_ver' = {clock}
    /\ UNCHANGED <<clock, prev_inc>>
    /\ UNCHANGED <<lockVars, workerVars, guardVars>>

\* threads sharing one VersionClock call increment and version in any order
NextClock ==
    \/ \E version \in Word : ClockNew(version)
    \/ \E t \in Threads : ClockIncrement(t)
    \/ \E t \in Threads : ClockVersion(t)

SpecClock == Init /\ [][NextClock]_vars

\* ------------------------------------------------------------ workers
\* test_version_lock_threaded: every closure is
\*     assert!(inner.try_lock().is_ok()); let _ = inner.release();
\* and a caller protecting a counter mutates it between the two calls.

\* inner.try_lock()
WorkerTryLock(t) ==
    /\ job[t] = "start"
    /\ left[t] > 0
    /\ Begin(t, "try_lock")
    /\ job' = [job EXCEPT ![t] = "trying"]
    /\ UNCHANGED <<entry, rs_value, left, counter, tmp, completed>>
    /\ UNCHANGED <<guardVars, clockVars>>

\* assert!(... .is_ok()): on Err the closure panics and release is not reached
WorkerAssert(t) ==
    /\ job[t] = "trying"
    /\ pc[t] = "idle"
    /\ IF ret[t].val = "Ok"
       THEN /\ job' = [job EXCEPT ![t] = "cs_read"]
            /\ UNCHANGED left
       ELSE /\ job' = [job EXCEPT ![t] = "start"]
            /\ left' = [left EXCEPT ![t] = left[t] - 1]
    /\ UNCHANGED <<lockVars, counter, tmp, completed>>
    /\ UNCHANGED <<guardVars, clockVars>>

\* the protected mutation, first half: read the counter
WorkerRead(t) ==
    /\ job[t] = "cs_read"
    /\ tmp' = [tmp EXCEPT ![t] = counter]
    /\ job' = [job EXCEPT ![t] = "cs_write"]
    /\ UNCHANGED <<lockVars, left, counter, completed>>
    /\ UNCHANGED <<guardVars, clockVars>>

\* the protected mutation, second half: write the counter back; then
\* inner.release() is called
WorkerWrite(t) ==
    /\ job[t] = "cs_write"
    /\ counter' = tmp[t] + 1
    /\ tmp' = [tmp EXCEPT ![t] = 0]
    /\ Begin(t, "release")
    /\ job' = [job EXCEPT ![t] = "releasing"]
    /\ UNCHANGED <<entry, rs_value, left, completed>>
    /\ UNCHANGED <<guardVars, clockVars>>

\* release has returned: the closure ends
WorkerEnd(t) ==
    /\ job[t] = "releasing"
    /\ pc[t] = "idle"
    /\ completed' = completed + 1
    /\ left' = [left EXCEPT ![t] = left[t] - 1]
    /\ job' = [job EXCEPT ![t] = "start"]
    /\ UNCHANGED <<lockVars, counter, tmp>>
    /\ UNCHANGED <<guardVars, clockVars>>

Worker(t) ==
    \/ WorkerTryLock(t)
    \/ WorkerAssert(t)
    \/ WorkerRead(t)
    \/ WorkerWrite(t)
    \/ WorkerEnd(t)

\* the instructions of the two methods the workers call
WorkerLockStep(t) ==
    \/ TryLockSet(t)
    \/ UnlockStep(t)
    \/ ReleaseAdd(t)

NextWorkers == \E t \in Threads : Worker(t) \/ WorkerLockStep(t)

SpecWorkers == Init /\ [][NextWorkers]_vars

\* a thread that is not inside try_lock or release asks is_locked() or
\* version()
Probe(t) ==
    /\ job[t] \in {"start", "cs_read", "cs_write"}
    /\ \E o \in {"is_locked", "version"} : Begin(t, o)
    /\ UNCHANGED <<entry, rs_value, workerVars, guardVars, clockVars>>

\* the instructions of the four methods the workers and the probes call
HolderLockStep(t) ==
    \/ IsLockedLoad(t)
    \/ IsLockedCas(t)
    \/ TryLockSet(t)
    \/ UnlockStep(t)
    \/ ReleaseAdd(t)
    \/ VersionLoad(t)

\* the workers of SpecWorkers, with is_locked() and version() called at any
\* moment in between
NextHolders == \E t \in Threads : Worker(t) \/ Probe(t) \/ HolderLockStep(t)

SpecHolders == Init /\ [][NextHolders]_vars

\* threadpool.join() has returned
AllDone == \A t \in Threads : job[t] = "start" /\ left[t] = 0

\* ------------------------------------------------------- VersionLock claims

\* thread t is between a successful try_lock and its call of release
InCriticalSection(t) == job[t] \in {"cs_read", "cs_write"}

\* C1: mutual exclusion. At most one worker is between a successful try_lock
\* and its release, and when all workers have finished the protected counter
\* equals the number of completed critical sections.
C1_MutualExclusion ==
    /\ \A t \in Threads : \A u \in Threads \ {t} :
           ~(InCriticalSection(t) /\ InCriticalSection(u))
    /\ AllDone => counter = completed

\* the sequential caller's call of method o has returned
Returned(o) == pc[1] = "idle" /\ ret[1].op = o

\* C2: try_lock on an unlocked lock of version v, with no concurrent
\* operation, returns Ok and leaves the word Locked(v).
C2_TryLockAcquires ==
    /\ (Returned("try_lock") /\ ~LockBitSet(entry))
           => /\ ret[1].val = "Ok"
              /\ LockBitSet(word)
              /\ BitAnd(word, mask) = BitAnd(entry, mask)
    /\ Returned("is_locked") => ret[1].val = LockBitSet(entry)
    /\ Returned("version") => ret[1].val = BitAnd(entry, mask)

\* C3: try_lock on a lock that is locked and is not released while the call
\* runs returns Err(LockPresent) and has not set the lock bit itself.
C3_TryLockFailsWhenHeld ==
    (Returned("try_lock") /\ LockBitSet(entry))
        => /\ ret[1].val = "Err"
           /\ word = entry

\* C4: workers sharing a lock created with version 0, each running Rounds
\* closures of try_lock followed by release, leave version() equal to
\* Rounds * NumThreads.
C4_VersionCountsRounds ==
    AllDone => BitAnd(word, mask) = Rounds * NumThreads

C4_Witness ==
    /\ AllDone
    /\ completed = Rounds * NumThreads
    /\ counter < completed

C2_Witness ==
    /\ Returned("try_lock")
    /\ ~LockBitSet(entry)
    /\ BitAnd(entry, mask) # 0
    /\ ret[1].val = "Ok"

\* C5: no thread loads, while another thread is between the two instructions
\* of release, a word whose lock bit is clear and whose version is still the
\* one the lock had when that release began.
C5_ReleaseNotTorn ==
    [][\A t \in Threads : \A u \in Threads \ {t} :
          (/\ pc[t] = "rel_add" /\ pc'[t] = "rel_add"
           /\ LockBitSet(old[t])
           /\ pc[u] = "il_load" /\ pc'[u] = "il_cas")
             => il_n'[u] # BitAnd(old[t], mask)]_vars

\* C6: a step of a thread inside is_locked() or version() leaves the atomic
\* word as it is.
C6_ReadsArePure ==
    [][\A t \in Threads :
          (op[t] \in {"is_locked", "version"} /\ pc'[t] # pc[t])
             => word' = word]_vars

\* C14: release_set(value) by the holder, with no concurrent operation, clears
\* the lock bit and sets the version to value, for every word value:
\* afterwards is_locked() is false and version() is value.
C14_ReleaseSetSetsVersion ==
    (Returned("release_set") /\ LockBitSet(entry))
        => /\ ~LockBitSet(word)
           /\ BitAnd(word, mask) = rs_value

\* C20: release by the sole holder leaves the lock bit clear for every
\* starting version, the greatest one the version bits hold included: the
\* increment does not carry into the lock bit. (Locks that release_set gave
\* a value beyond the version bits are left out.)
C20_ReleaseKeepsLockBitClear ==
    (Returned("release") /\ LockBitSet(entry) /\ ~LockBitSet(rs_value))
        => ~LockBitSet(word)

\* every call has returned and every try_lock has its completed release
Quiescent == AllDone /\ \A t \in Threads : pc[t] = "idle"

\* C19: the lock bit is set only while some thread holds the lock. Whenever
\* every try_lock has returned and every successful try_lock has been followed
\* by a completed release, the lock bit is clear, whatever calls of
\* is_locked() and version() ran in between.
C19_LockBitOnlyWhileHeld ==
    Quiescent => ~LockBitSet(word)

\* ------------------------------------------- NonContiguousMemory claims

\* both shards of guard g can be unlocked
IsLive(g) == g.shard1.live /\ g.shard2.live

\* C7: round trip. unlock of the guard alloc returned, for either supported
\* config and whatever random value alloc drew, returns exactly the payload.
C7_RoundTrip ==
    (result.op = "unlock" /\ nrefresh = 0 /\ IsLive(guard))
        => result = Ok("unlock", payload)

C7_Witness ==
    /\ result = Ok("unlock", payload)
    /\ nrefresh = 0
    /\ payload # 0
    /\ hash1 # 0
    /\ guard.config = "RamAndFile"

\* C8: rotation preserves the secret. For the guard from alloc and for every
\* guard obtained from it by refresh calls, the digest of shard1 combined
\* with shard2 is the payload, and unlock after the rotations returns it.
C8_RotationPreservesSecret ==
    /\ (gstate = "live" /\ IsLive(guard))
           => xor(hash1, guard.shard2.data) = payload
    /\ (result.op = "unlock" /\ nrefresh >= 1 /\ IsLive(guard))
           => result = Ok("unlock", payload)

C8_Witness ==
    /\ result = Ok("unlock", payload)
    /\ nrefresh >= 2
    /\ payload # 0
    /\ guard.shard2.kind = "FileShard"
    /\ guard.shard2.data # payload

\* C9: after zeroize of a guard of either supported config, shard1 and shard2
\* both fail to unlock and the config reads FullRam.
C9_ZeroizeInvalidates ==
    result.op = "zeroize"
        => /\ ShardUnlock(guard.shard1).tag = "Err"
           /\ ShardUnlock(guard.shard2).tag = "Err"
           /\ guard.config = "FullRam"

C9_Witness ==
    /\ result.op = "zeroize"
    /\ guard.shard2.kind = "FileShard"
    /\ guard.config = "FullRam"

\* C10: unlock of a zeroized guard returns an error value to the caller; it
\* does not panic and returns no bytes.
C10_UnlockOfZeroizedIsError ==
    (result.op = "unlock" /\ ~IsLive(guard)) => result.tag = "Err"

\* C11: size contract. alloc with a size other than NC_DATA_SIZE returns
\* NCSizeNotAllowed whatever the payload and the config (FullFile included),
\* produces no guard and allocates no shard.
C11_SizeContract ==
    (result.op = "alloc" /\ acall.size # NC_DATA_SIZE)
        => /\ result = Err("alloc", "NCSizeNotAllowed")
           /\ gstate = "none"
           /\ guard = NoGuard
           /\ acall.shards = 0

C11_Witness ==
    /\ result = Err("alloc", "NCSizeNotAllowed")
    /\ acall.size > NC_DATA_SIZE
    /\ acall.config = "FullFile"
    /\ payload # 0

\* C12: alloc with size NC_DATA_SIZE and config FullFile returns
\* LockNotAvailable and no guard: no guard of another configuration is built
\* in its place.
C12_FullFileUnavailable ==
    (result.op = "alloc" /\ acall.size = NC_DATA_SIZE
                        /\ acall.config = "FullFile")
        => /\ result = Err("alloc", "LockNotAvailable")
           /\ gstate = "none"
           /\ guard = NoGuard

C12_Witness ==
    /\ result = Err("alloc", "LockNotAvailable")
    /\ acall.size = NC_DATA_SIZE
    /\ acall.config = "FullFile"
    /\ payload # 0

\* C15: serialization round trip. Serializing a guard of either supported
\* config that holds payload p emits p; deserializing these bytes yields a
\* guard whose config is FullRam, whatever the config of the first guard,
\* and whose unlock returns p.
C15_SerdeRoundTrip ==
    /\ result.op = "serialize"
           => /\ result = Ok("serialize", payload)
              /\ wire.data = payload
    /\ result.op = "deserialize"
           => /\ result.tag = "Ok"
              /\ guard.config = "FullRam"
    /\ (origin = "deserialize" /\ gstate = "live")
           => /\ guard.config = "FullRam"
              /\ xor(hash1, guard.shard2.data) = payload
    /\ (origin = "deserialize" /\ result.op = "unlock")
           => result = Ok("unlock", payload)

C15_Witness ==
    /\ origin = "deserialize"
    /\ result = Ok("unlock", payload)
    /\ payload # 0
    /\ wire.config = "RamAndFile"
    /\ guard.config = "FullRam"
    /\ guard.shard2.kind = "RamShard"

C17_UnlockRotates ==
    [][\A random \in Data, d \in Data :
          (Unlock(random, d) /\ result'.tag = "Ok")
             => guard' = refresh(guard, hash1, random, d).guard]_vars

\* C18 as stated: every guard value that is discarded (the old guard of update,
\* the guard from the rotation inside unlock, a guard zeroized and then
\* dropped, a guard falling out of scope) has both shard buffers wiped, and
\* zeroize has run exactly once on it.
C18_ZeroizedExactlyOnce ==
    dropped.what # "none"
        => /\ dropped.wiped
           /\ dropped.runs = 1

\* C18 as amended: every guard value that is discarded has both shard buffers
\* wiped, and its destructor runs zeroize exactly once on it, after the runs
\* of the explicit zeroize calls made on it before.
C18_DestructorZeroizesOnce ==
    dropped.what # "none"
        => /\ dropped.wiped
           /\ dropped.runs = dropped.explicit + 1

C18_Witness ==
    /\ dropped.what = "update"
    /\ dropped.explicit = 1
    /\ dropped.runs = 2
    /\ dropped.wiped
    /\ gstate = "live"

\* ------------------------------------------------------- VersionClock claims

\* C13: VersionClock monotonicity. Every increment returns the value the clock
\* had just before it and a value greater than the one the increment before
\* it returned, and version() never returns less than it returned earlier.
C13_ClockMonotonic ==
    [][\A t \in Threads :
          /\ ClockIncrement(t)
                => \A r \in prev_inc' :
                      /\ r = clock
                      /\ \A p \in prev_inc : r > p
          /\ ClockVersion(t)
                => \A r \in prev_ver' : \A p \in prev_ver : r >= p]_vars

====
